---- MODULE Spec2Model ----
(***************************************************************************)
(* A model of src/main.py: the settings registry (Configuration), the      *)
(* handler factories, the observable Document, the strategy-driven         *)
(* TextProcessor, the decorator chain, and the __main__ driver.            *)
(*                                                                         *)
(* A str is a sequence of one-character strings, so that str.lower(),      *)
(* str.upper() and the f-string concatenations are computed, not assumed.  *)
(* The module is either run as __main__ (scenario "main": the driver of    *)
(* lines 137-164 runs once) or imported and one of its units is used by    *)
(* an arbitrary client (the other scenarios).  The units share no data.    *)
(***************************************************************************)
EXTENDS Integers, Sequences, FiniteSets, TLC

VARIABLES
    scenario,      \* which use of the module this behaviour is
    out,           \* lines printed: by the whole run in "main", by the call in progress otherwise
    \* ---- Configuration (lines 2-15)
    cfg_instance,  \* Configuration._instance: None or the id of the one object
    cfg_settings,  \* Configuration._settings (no handle exists to read it before the first construction)
    cfg_handles,   \* the references the constructions returned, in order
    cfg_created,   \* how many objects object.__new__ has made
    cfg_got,       \* what the most recent get_setting returned
    cfg_lastSet,   \* history: key -> value of the most recent set_setting, None if never set
    cfg_setWhen,   \* history: key -> how many handles existed at the most recent set_setting
    \* ---- Document / Subject (lines 47-69)
    doc_content,   \* Document._content
    observers,     \* Subject._observers
    pc,            \* position of set_content: idle, notifying, returned, raised
    it,            \* the list iterator's index inside notify's for loop
    err,           \* the exception the most recent call raised to its caller
    startObs,      \* history: _observers when the current set_content was called
    orig,          \* history: for each entry of _observers its index in startObs, 0 if attached later
    notified,      \* history: the update calls of the current pass that completed
    removed,       \* history: startObs indices detached during the pass before their turn
    mutated,       \* history: an update of the current pass called attach or detach
    failedAt,      \* history: the iterator index of the update that raised, 0 if none
    arg,           \* history: the argument of the current set_content
    last,          \* history: the most recent attach or detach call on the document
    \* ---- TextProcessor (lines 94-102)
    strategy,      \* TextProcessor._strategy
    installed,     \* history: the strategy most recently installed
    calls,         \* history: the execute calls so far: input, result, strategy installed then
    \* ---- Component chain (lines 110-134)
    chain,         \* the object graph: payload and the decorators around it, innermost first
    op_result,     \* what the most recent operation() returned, None before
    \* ---- driver (lines 137-164)
    mpc,           \* the line of the driver about to run
    processed      \* the driver's local processed_content / pending print argument

cfgVars == <<cfg_instance, cfg_settings, cfg_handles, cfg_created, cfg_got, cfg_lastSet, cfg_setWhen>>
docVars == <<doc_content, observers, pc, it, err, startObs, orig, notified, removed, mutated, failedAt, arg, last>>
stratVars == <<strategy, installed, calls>>
decVars == <<chain, op_result>>
mainVars == <<mpc, processed>>
vars == <<scenario, out, cfgVars, docVars, stratVars, decVars, mainVars>>

\* Python's None where a str is expected: no sequence of characters equals it
None == <<"None">>
\* Python's None where an object reference is expected
NoObject == 0

\* The printed lines the model keeps when a client's call starts: all of them in
\* the driver's run, none otherwise (out then holds what the call itself prints).
Console == IF scenario = "main" THEN out ELSE <<>>

----------------------------------------------------------------------------
(* Bounds of the model. *)
MaxHandles == 3   \* Configuration() constructions
MaxObs == 3       \* length of Subject._observers
MaxStr == 2       \* length of a client's input string
MaxCalls == 2     \* execute calls remembered
MaxChain == 3     \* decorators around a ConcreteComponent

----------------------------------------------------------------------------
(* str: sequences of characters. *)
UpperLetters == <<"A","B","C","D","E","F","G","H","I","J","K","L","M",
                  "N","O","P","Q","R","S","T","U","V","W","X","Y","Z">>
LowerLetters == <<"a","b","c","d","e","f","g","h","i","j","k","l","m",
                  "n","o","p","q","r","s","t","u","v","w","x","y","z">>

IndexIn(s, c) == CHOOSE i \in 1..Len(s) : s[i] = c
Has(s, c) == \E i \in 1..Len(s) : s[i] = c

LowerChar(c) == IF Has(UpperLetters, c) THEN LowerLetters[IndexIn(UpperLetters, c)] ELSE c
UpperChar(c) == IF Has(LowerLetters, c) THEN UpperLetters[IndexIn(LowerLetters, c)] ELSE c

\* str.lower() and str.upper() on ASCII text
StrLower(s) == [i \in 1..Len(s) |-> LowerChar(s[i])]
StrUpper(s) == [i \in 1..Len(s) |-> UpperChar(s[i])]

\* the characters and strings a client passes in
Chars == {"a", "B"}
RECURSIVE StrsUpTo(_)
StrsUpTo(n) ==
    IF n = 0 THEN {<<>>}
    ELSE LET P == StrsUpTo(n - 1) IN P \cup {Append(x, c) : x \in P, c \in Chars}
Strs == StrsUpTo(MaxStr)

----------------------------------------------------------------------------
(* Configuration, lines 2-15. *)
Keys == {"language", "theme"}
Values == {<<"E","N">>, <<"U","A">>}
EmptyDict == [k \in Keys |-> None]

\* __new__ without the `is None` test: every construction makes an object and a new dict
New_AlwaysFresh ==
    /\ cfg_created < MaxHandles
    /\ cfg_created' = cfg_created + 1
    /\ cfg_instance' = cfg_created + 1
    /\ cfg_settings' = EmptyDict
    /\ cfg_handles' = Append(cfg_handles, cfg_created + 1)
    /\ UNCHANGED <<cfg_got, cfg_lastSet, cfg_setWhen>>

\* Configuration(): __new__, lines 5-9
New ==
    /\ Len(cfg_handles) < MaxHandles
    /\ IF cfg_instance = NoObject
       THEN /\ cfg_created' = cfg_created + 1
            /\ cfg_instance' = cfg_created + 1
            /\ cfg_settings' = EmptyDict
            /\ cfg_handles' = Append(cfg_handles, cfg_created + 1)
       ELSE /\ cfg_handles' = Append(cfg_handles, cfg_instance)
            /\ UNCHANGED <<cfg_created, cfg_instance, cfg_settings>>
    /\ UNCHANGED <<cfg_got, cfg_lastSet, cfg_setWhen>>

\* self._settings of any handle is the class attribute: instances have no _settings of their own
SettingsOf(h) == cfg_settings

\* set_setting, lines 11-12
SetSetting(h, k, v) ==
    /\ h \in 1..Len(cfg_handles)
    /\ cfg_settings' = [SettingsOf(h) EXCEPT ![k] = v]
    /\ cfg_lastSet' = [cfg_lastSet EXCEPT ![k] = v]
    /\ cfg_setWhen' = [cfg_setWhen EXCEPT ![k] = Len(cfg_handles)]
    /\ UNCHANGED <<cfg_instance, cfg_handles, cfg_created, cfg_got>>

\* dict.get(key): the value, or None when the key is absent
DictGet(d, k) == d[k]

\* get_setting, lines 14-15
GetSetting(h, k) ==
    /\ h \in 1..Len(cfg_handles)
    /\ cfg_got' = [handle |-> h, key |-> k, value |-> DictGet(SettingsOf(h), k)]
    /\ UNCHANGED <<cfg_instance, cfg_settings, cfg_handles, cfg_created, cfg_lastSet, cfg_setWhen>>

NoGet == [handle |-> 0, key |-> "", value |-> None]

CfgInit ==
    /\ cfg_instance = NoObject
    /\ cfg_settings = EmptyDict
    /\ cfg_handles = <<>>
    /\ cfg_created = 0
    /\ cfg_got = NoGet
    /\ cfg_lastSet = EmptyDict
    /\ cfg_setWhen = [k \in Keys |-> 0]

----------------------------------------------------------------------------
(* Factory Method, lines 20-44. *)
PdfPrefix == <<"P","D","F"," ","C","o","n","t","e","n","t",":"," ">>

\* TextHandlerFactory.create_handler / PDFHandlerFactory.create_handler, lines 38-44
CreateHandler(factory) == IF factory = "TextHandlerFactory" THEN "TextHandler" ELSE "PDFHandler"

\* TextHandler.process / PDFHandler.process, lines 25-31
HandlerProcess(handler, content) ==
    IF handler = "TextHandler" THEN StrLower(content) ELSE PdfPrefix \o content

----------------------------------------------------------------------------
(* Subject, Document, Observer, lines 47-78. *)
LoggerPrefix == <<"L","o","g","g","e","r",":"," ","D","o","c","u","m","e","n","t"," ","c","o","n","t","e","n","t"," ","u","p","d","a","t","e","d"," ","t","o",":"," ">>

\* The Observer implementations a client attaches.  Logger is the repository's;
\* the others are client subclasses of the abstract Observer whose update
\* raises, or calls detach or attach on the subject it is given.
Loggers == {"logger1", "logger2"}
Failing == {"failing"}
Detachers == {"selfDetach", "detachLogger1"}
Attachers == {"selfAttach", "attachLogger1"}
ObserverIds == Loggers \cup Failing \cup Detachers \cup Attachers

\* the observer a Detacher's or an Attacher's update passes to detach / attach
Target(o) == IF o \in {"selfDetach", "selfAttach"} THEN o ELSE "logger1"

Contents == {<<"X">>, <<"Y">>}

\* list.remove(x): drops the first element equal to x (callers test `x in list` first)
ListRemove(s, x) ==
    LET i == CHOOSE j \in 1..Len(s) : s[j] = x /\ \A m \in 1..(j-1) : s[m] # x
    IN  SubSeq(s, 1, i-1) \o SubSeq(s, i+1, Len(s))

\* the index list.remove(x) drops
RemovedIndex(s, x) == CHOOSE j \in 1..Len(s) : s[j] = x /\ \A m \in 1..(j-1) : s[m] # x

DropAt(s, i) == SubSeq(s, 1, i-1) \o SubSeq(s, i+1, Len(s))

Count(s, x) == Cardinality({i \in 1..Len(s) : s[i] = x})

NoCall == [op |-> "none", obs |-> "", ok |-> TRUE, before |-> 0]
AttachCall(o) == [op |-> "attach", obs |-> o, ok |-> TRUE, before |-> Count(observers, o)]
DetachCall(o) == [op |-> "detach", obs |-> o, ok |-> Has(observers, o), before |-> Count(observers, o)]

\* Document.get_content, lines 64-65
GetContent == doc_content

\* Logger.update, lines 76-78: the line it prints
LoggerLine == LoggerPrefix \o GetContent

\* A client's call starts with nothing recorded about it.
CallHistoryCleared ==
    /\ startObs' = <<>>
    /\ orig' = [i \in 1..Len(observers') |-> 0]
    /\ notified' = <<>>
    /\ removed' = {}
    /\ mutated' = FALSE
    /\ failedAt' = 0
    /\ arg' = None
    /\ it' = 0

\* Subject.attach, lines 51-52
Attach(o) ==
    /\ pc # "notifying"
    /\ out' = Console
    /\ Len(observers) < MaxObs
    /\ observers' = Append(observers, o)
    /\ last' = AttachCall(o)
    /\ err' = "none"
    /\ pc' = "idle"
    /\ CallHistoryCleared
    /\ UNCHANGED doc_content

\* detach that ignores an absent observer instead of raising
Detach_Silent(o) ==
    /\ pc # "notifying"
    /\ out' = Console
    /\ last' = DetachCall(o)
    /\ observers' = IF Has(observers, o) THEN ListRemove(observers, o) ELSE observers
    /\ err' = "none"
    /\ pc' = "idle"
    /\ CallHistoryCleared
    /\ UNCHANGED doc_content

\* detach that drops the last occurrence instead of the first
Detach_Last(o) ==
    /\ pc # "notifying"
    /\ out' = Console
    /\ last' = DetachCall(o)
    /\ IF Has(observers, o)
       THEN /\ observers' = DropAt(observers, CHOOSE j \in 1..Len(observers) :
                                   observers[j] = o /\ \A m \in (j+1)..Len(observers) : observers[m] # o)
            /\ err' = "none"
       ELSE /\ observers' = observers
            /\ err' = "ValueError"
    /\ pc' = "idle"
    /\ CallHistoryCleared
    /\ UNCHANGED doc_content

\* Subject.detach, lines 54-55: list.remove raises ValueError when o is absent
Detach(o) ==
    /\ pc # "notifying"
    /\ out' = Console
    /\ last' = DetachCall(o)
    /\ IF Has(observers, o)
       THEN /\ observers' = ListRemove(observers, o)
            /\ err' = "none"
       ELSE /\ observers' = observers
            /\ err' = "ValueError"
    /\ pc' = "idle"
    /\ CallHistoryCleared
    /\ UNCHANGED doc_content

\* Document.set_content, line 68, and the entry into notify (line 69): the
\* for loop of line 58 takes an iterator over the list itself, at index 0.
SetContent(t) ==
    /\ pc # "notifying"
    /\ out' = Console
    /\ doc_content' = t
    /\ pc' = "notifying"
    /\ it' = 0
    /\ err' = "none"
    /\ startObs' = observers
    /\ orig' = [i \in 1..Len(observers) |-> i]
    /\ notified' = <<>>
    /\ removed' = {}
    /\ mutated' = FALSE
    /\ failedAt' = 0
    /\ arg' = t
    /\ UNCHANGED <<observers, last>>

\* the update call on observers[it+1] returned
Completed(o) == notified' = Append(notified, [obs |-> o, orig |-> orig[it+1], seen |-> GetContent])

\* the startObs indices whose update has been called, the current one included
Visited == {notified[i].orig : i \in 1..Len(notified)} \cup {orig[it+1]}

\* Logger.update, lines 76-78
UpdateLogger(o) ==
    /\ out' = Append(out, LoggerLine)
    /\ Completed(o)
    /\ pc' = "notifying"
    /\ UNCHANGED <<observers, orig, removed, mutated, failedAt, err, last>>

\* an update that raises: the exception leaves notify and set_content (no try in lines 57-69)
UpdateFailing(o) ==
    /\ pc' = "raised"
    /\ err' = "ObserverError"
    /\ failedAt' = it + 1
    /\ UNCHANGED <<out, observers, orig, notified, removed, mutated, last>>

\* an update that calls subject.detach(Target(o)), lines 54-55
UpdateDetacher(o) ==
    IF Has(observers, Target(o))
    THEN LET j == RemovedIndex(observers, Target(o)) IN
         /\ observers' = ListRemove(observers, Target(o))
         /\ orig' = DropAt(orig, j)
         /\ removed' = IF orig[j] # 0 /\ orig[j] \notin Visited
                        THEN removed \cup {orig[j]} ELSE removed
         /\ mutated' = TRUE
         /\ last' = DetachCall(Target(o))
         /\ Completed(o)
         /\ pc' = "notifying"
         /\ UNCHANGED <<out, failedAt, err>>
    ELSE /\ pc' = "raised"
         /\ err' = "ValueError"
         /\ failedAt' = it + 1
         /\ last' = DetachCall(Target(o))
         /\ UNCHANGED <<out, observers, orig, notified, removed, mutated>>

\* an update that calls subject.attach(Target(o)), lines 51-52
UpdateAttacher(o) ==
    /\ Len(observers) < MaxObs
    /\ observers' = Append(observers, Target(o))
    /\ orig' = Append(orig, 0)
    /\ mutated' = TRUE
    /\ last' = AttachCall(Target(o))
    /\ Completed(o)
    /\ pc' = "notifying"
    /\ UNCHANGED <<out, removed, failedAt, err>>

\* observer.update(self), line 59, by the class of the observer
Update(o) ==
    CASE o \in Loggers -> UpdateLogger(o)
      [] o \in Failing -> UpdateFailing(o)
      [] o \in Detachers -> UpdateDetacher(o)
      [] o \in Attachers -> UpdateAttacher(o)

\* notify that stops after the first observer
NotifyStep_FirstOnly ==
    /\ pc = "notifying"
    /\ IF it >= Len(observers) \/ it >= 1
       THEN /\ pc' = "returned"
            /\ UNCHANGED <<out, it, observers, orig, notified, removed, mutated, failedAt, err, last>>
       ELSE /\ it' = it + 1
            /\ Update(observers[it + 1])
    /\ UNCHANGED <<doc_content, startObs, arg>>

\* notify that swallows an observer's exception and goes on
NotifyStep_Isolated ==
    /\ pc = "notifying"
    /\ IF it >= Len(observers)
       THEN /\ pc' = "returned"
            /\ UNCHANGED <<out, it, observers, orig, notified, removed, mutated, failedAt, err, last>>
       ELSE /\ it' = it + 1
            /\ IF observers[it + 1] \in Failing
               THEN UNCHANGED <<out, pc, observers, orig, notified, removed, mutated, failedAt, err, last>>
               ELSE Update(observers[it + 1])
    /\ UNCHANGED <<doc_content, startObs, arg>>

\* Subject.notify, lines 57-59, one turn of the for loop: the list iterator
\* yields _observers[it] if it < len(_observers) (the length now, not the
\* length when the loop started) and advances; otherwise the loop ends and
\* set_content returns.
NotifyStep ==
    /\ pc = "notifying"
    /\ IF it >= Len(observers)
       THEN /\ pc' = "returned"
            /\ UNCHANGED <<out, it, observers, orig, notified, removed, mutated, failedAt, err, last>>
       ELSE /\ it' = it + 1
            /\ Update(observers[it + 1])
    /\ UNCHANGED <<doc_content, startObs, arg>>

DocInit ==
    /\ doc_content = <<>>
    /\ observers = <<>>
    /\ pc = "idle"
    /\ it = 0
    /\ err = "none"
    /\ startObs = <<>>
    /\ orig = <<>>
    /\ notified = <<>>
    /\ removed = {}
    /\ mutated = FALSE
    /\ failedAt = 0
    /\ arg = None
    /\ last = NoCall

----------------------------------------------------------------------------
(* ProcessingStrategy, TextProcessor, lines 81-102. *)
Strategies == {"LowerCaseStrategy", "UpperCaseStrategy"}
NoProcessor == "NoProcessor"

\* LowerCaseStrategy.process, lines 87-88; UpperCaseStrategy.process, lines 91-92
StrategyProcess(st, content) ==
    IF st = "LowerCaseStrategy" THEN StrLower(content) ELSE StrUpper(content)

\* TextProcessor.__init__, lines 95-96
NewProcessor(st) ==
    /\ strategy' = st
    /\ installed' = st
    /\ calls' = <<>>

\* set_strategy that forgets to store the new strategy
SetStrategy_Dropped(st) ==
    /\ strategy # NoProcessor
    /\ strategy' = strategy
    /\ installed' = st
    /\ UNCHANGED calls

\* TextProcessor.set_strategy, lines 98-99
SetStrategy(st) ==
    /\ strategy # NoProcessor
    /\ strategy' = st
    /\ installed' = st
    /\ UNCHANGED calls

\* TextProcessor.execute, lines 101-102
Execute(content) ==
    /\ strategy # NoProcessor
    /\ Len(calls) < MaxCalls
    /\ calls' = Append(calls, [input |-> content,
                               result |-> StrategyProcess(strategy, content),
                               active |-> installed])
    /\ UNCHANGED <<strategy, installed>>

StratInit ==
    /\ strategy = NoProcessor
    /\ installed = NoProcessor
    /\ calls = <<>>

----------------------------------------------------------------------------
(* Component, ConcreteComponent, Decorator, lines 105-134. *)
SpellOpen == <<"S","p","e","l","l","C","h","e","c","k","e","d","(">>
SpellClose == <<")">>
LoggingPrefix == <<"L","o","g","g","i","n","g",":"," ">>

DecoratorKinds == {"Decorator", "SpellCheckDecorator", "LoggingDecorator"}
NoComponent == [payload |-> None, decos |-> <<>>]
\* the payloads a client constructs a ConcreteComponent with
Payloads == Strs \cup {<<"a","b","c">>}

\* operation() where LoggingDecorator prints the payload, not what it wraps returned
RECURSIVE OperationOf_LogsPayload(_, _)
OperationOf_LogsPayload(payload, decos) ==
    IF decos = <<>>
    THEN [result |-> payload, printed |-> <<>>]
    ELSE LET inner == OperationOf_LogsPayload(payload, SubSeq(decos, 1, Len(decos) - 1))
             top == decos[Len(decos)]
         IN  CASE top = "Decorator" -> inner
               [] top = "SpellCheckDecorator" ->
                    [result |-> SpellOpen \o inner.result \o SpellClose, printed |-> inner.printed]
               [] top = "LoggingDecorator" ->
                    [result |-> inner.result,
                     printed |-> Append(inner.printed, LoggingPrefix \o payload)]

\* operation() where LoggingDecorator inherits Decorator.operation and prints nothing
RECURSIVE OperationOf_NoLog(_, _)
OperationOf_NoLog(payload, decos) ==
    IF decos = <<>>
    THEN [result |-> payload, printed |-> <<>>]
    ELSE LET inner == OperationOf_NoLog(payload, SubSeq(decos, 1, Len(decos) - 1))
             top == decos[Len(decos)]
         IN  CASE top = "SpellCheckDecorator" ->
                    [result |-> SpellOpen \o inner.result \o SpellClose, printed |-> inner.printed]
               [] OTHER -> inner

\* operation() of the object whose wrappers, innermost first, are decos
\* (lines 114-115, 123-124, 127-128, 131-134): what it returns and what it prints
RECURSIVE OperationOf(_, _)
OperationOf(payload, decos) ==
    IF decos = <<>>
    THEN [result |-> payload, printed |-> <<>>]
    ELSE LET inner == OperationOf(payload, SubSeq(decos, 1, Len(decos) - 1))
             top == decos[Len(decos)]
         IN  CASE top = "Decorator" -> inner
               [] top = "SpellCheckDecorator" ->
                    [result |-> SpellOpen \o inner.result \o SpellClose, printed |-> inner.printed]
               [] top = "LoggingDecorator" ->
                    [result |-> inner.result,
                     printed |-> Append(inner.printed, LoggingPrefix \o inner.result)]

\* ConcreteComponent.__init__, lines 111-112
NewComponent(content) ==
    /\ chain' = [payload |-> content, decos |-> <<>>]
    /\ op_result' = None
    /\ out' = Console

\* Decorator.__init__, lines 120-121, on the outermost object so far
Wrap(kind) ==
    /\ chain.payload # None
    /\ Len(chain.decos) < MaxChain
    /\ chain' = [chain EXCEPT !.decos = Append(@, kind)]
    /\ op_result' = None
    /\ out' = Console

\* operation() on the outermost object
Operation ==
    /\ chain.payload # None
    /\ LET r == OperationOf(chain.payload, chain.decos) IN
        /\ op_result' = r.result
        /\ out' = Console \o r.printed
    /\ UNCHANGED chain

DecInit ==
    /\ chain = NoComponent
    /\ op_result = None

----------------------------------------------------------------------------
(* The module used by a client: one unit per behaviour. *)
Scenarios == {"main", "config", "document", "strategy", "decorator"}

InConfig == scenario = "config" /\ UNCHANGED <<scenario, out, docVars, stratVars, decVars, mainVars>>
InDocument == scenario = "document" /\ UNCHANGED <<scenario, cfgVars, stratVars, decVars, mainVars>>
InStrategy == scenario = "strategy" /\ UNCHANGED <<scenario, out, cfgVars, docVars, decVars, mainVars>>
InDecorator == scenario = "decorator" /\ UNCHANGED <<scenario, cfgVars, docVars, stratVars, mainVars>>

ClientNew == InConfig /\ New
ClientSetSetting == InConfig /\ \E h \in 1..MaxHandles, k \in Keys, v \in Values : SetSetting(h, k, v)
ClientGetSetting == InConfig /\ \E h \in 1..MaxHandles, k \in Keys : GetSetting(h, k)

ClientAttach == InDocument /\ \E o \in ObserverIds : Attach(o)
ClientDetach == InDocument /\ \E o \in ObserverIds : Detach(o)
ClientSetContent == InDocument /\ \E t \in Contents : SetContent(t)
ClientNotifyStep == InDocument /\ NotifyStep

ClientNewProcessor == InStrategy /\ \E st \in Strategies : strategy = NoProcessor /\ NewProcessor(st)
ClientSetStrategy == InStrategy /\ \E st \in Strategies : SetStrategy(st)
ClientExecute == InStrategy /\ \E x \in Strs : Execute(x)

ClientNewComponent == InDecorator /\ \E x \in Payloads : chain = NoComponent /\ NewComponent(x)
ClientWrap == InDecorator /\ \E kind \in DecoratorKinds : Wrap(kind)
ClientOperation == InDecorator /\ Operation

----------------------------------------------------------------------------
(* The driver, lines 137-164: one action per statement. *)
ConfigPrefix == <<"C","o","n","f","i","g","u","r","a","t","i","o","n"," ","L","a","n","g","u","a","g","e",":"," ">>
ProcessedPrefix == <<"P","r","o","c","e","s","s","e","d"," ","C","o","n","t","e","n","t",":"," ">>
LowerPrefix == <<"L","o","w","e","r","C","a","s","e",":"," ">>
UpperPrefix == <<"U","p","p","e","r","C","a","s","e",":"," ">>
FinalPrefix == <<"F","i","n","a","l"," ","O","u","t","p","u","t",":"," ">>
HelloWorld == <<"H","e","l","l","o"," ","W","o","r","l","d","!">>
NewDocumentContent == <<"N","e","w"," ","D","o","c","u","m","e","n","t"," ","C","o","n","t","e","n","t">>
TextToBeProcessed == <<"T","e","x","t"," ","t","o"," ","b","e"," ","p","r","o","c","e","s","s","e","d">>

\* str(v) inside an f-string
PyStr(v) == IF v = None THEN <<"N","o","n","e">> ELSE v

At(line, next) == scenario = "main" /\ mpc = line /\ mpc' = next /\ UNCHANGED scenario

\* line 139
Main139 == At("139", "140") /\ New /\ UNCHANGED <<out, processed, docVars, stratVars, decVars>>
\* line 140
Main140 ==
    /\ At("140", "141")
    /\ SetSetting(1, "language", <<"E","N">>)
    /\ UNCHANGED <<out, processed, docVars, stratVars, decVars>>
\* line 141
Main141 ==
    /\ At("141", "144")
    /\ GetSetting(1, "language")
    /\ out' = Append(out, ConfigPrefix \o PyStr(cfg_got'.value))
    /\ UNCHANGED <<processed, docVars, stratVars, decVars>>
\* lines 144-146
Main144 ==
    /\ At("144", "147")
    /\ processed' = HandlerProcess(CreateHandler("TextHandlerFactory"), HelloWorld)
    /\ UNCHANGED <<out, cfgVars, docVars, stratVars, decVars>>
\* line 147
Main147 ==
    /\ At("147", "150")
    /\ out' = Append(out, ProcessedPrefix \o PyStr(processed))
    /\ UNCHANGED <<processed, cfgVars, docVars, stratVars, decVars>>
\* lines 150-152
Main150 == At("150", "153") /\ Attach("logger1") /\ UNCHANGED <<processed, cfgVars, stratVars, decVars>>
\* line 153: the call
Main153 ==
    /\ At("153", "153 notify")
    /\ SetContent(NewDocumentContent)
    /\ UNCHANGED <<processed, cfgVars, stratVars, decVars>>
\* line 153: inside notify, until set_content returns (an exception ends the run)
Main153Notify ==
    /\ scenario = "main" /\ mpc = "153 notify"
    /\ NotifyStep
    /\ mpc' = CASE pc' = "returned" -> "156"
                 [] pc' = "raised" -> "traceback"
                 [] OTHER -> "153 notify"
    /\ UNCHANGED <<scenario, processed, cfgVars, stratVars, decVars>>
\* line 156
Main156 ==
    /\ At("156", "157")
    /\ NewProcessor("LowerCaseStrategy")
    /\ UNCHANGED <<out, processed, cfgVars, docVars, decVars>>
\* line 157
Main157 ==
    /\ At("157", "158")
    /\ Execute(HelloWorld)
    /\ out' = Append(out, LowerPrefix \o PyStr(calls'[Len(calls')].result))
    /\ UNCHANGED <<processed, cfgVars, docVars, decVars>>
\* line 158
Main158 ==
    /\ At("158", "159")
    /\ SetStrategy("UpperCaseStrategy")
    /\ UNCHANGED <<out, processed, cfgVars, docVars, decVars>>
\* line 159
Main159 ==
    /\ At("159", "162")
    /\ Execute(HelloWorld)
    /\ out' = Append(out, UpperPrefix \o PyStr(calls'[Len(calls')].result))
    /\ UNCHANGED <<processed, cfgVars, docVars, decVars>>
\* line 162
Main162 ==
    /\ At("162", "163 inner")
    /\ NewComponent(TextToBeProcessed)
    /\ UNCHANGED <<processed, cfgVars, docVars, stratVars>>
\* line 163: the argument LoggingDecorator(simple_component)
Main163Inner ==
    /\ At("163 inner", "163 outer")
    /\ Wrap("LoggingDecorator")
    /\ UNCHANGED <<processed, cfgVars, docVars, stratVars>>
\* line 163: SpellCheckDecorator(...)
Main163Outer ==
    /\ At("163 outer", "164")
    /\ Wrap("SpellCheckDecorator")
    /\ UNCHANGED <<processed, cfgVars, docVars, stratVars>>
\* line 164: the f-string's call decorated_component.operation()
Main164 ==
    /\ At("164", "164 print")
    /\ Operation
    /\ UNCHANGED <<processed, cfgVars, docVars, stratVars>>
\* line 164: print of the formatted line
Main164Print ==
    /\ At("164 print", "end")
    /\ out' = Append(out, FinalPrefix \o PyStr(op_result))
    /\ UNCHANGED <<processed, cfgVars, docVars, stratVars, decVars>>

Driver ==
    \/ Main139 \/ Main140 \/ Main141 \/ Main144 \/ Main147 \/ Main150
    \/ Main153 \/ Main153Notify \/ Main156 \/ Main157 \/ Main158 \/ Main159
    \/ Main162 \/ Main163Inner \/ Main163Outer \/ Main164 \/ Main164Print

----------------------------------------------------------------------------
Init ==
    /\ scenario \in Scenarios
    /\ out = <<>>
    /\ CfgInit /\ DocInit /\ StratInit /\ DecInit
    /\ mpc = IF scenario = "main" THEN "139" ELSE "imported"
    /\ processed = None

Next ==
    \/ ClientNew \/ ClientSetSetting \/ ClientGetSetting
    \/ ClientAttach \/ ClientDetach \/ ClientSetContent \/ ClientNotifyStep
    \/ ClientNewProcessor \/ ClientSetStrategy \/ ClientExecute
    \/ ClientNewComponent \/ ClientWrap \/ ClientOperation
    \/ Driver

Spec == Init /\ [][Next]_vars

----------------------------------------------------------------------------
(* Claims. *)

\* C1: the settings registry is one shared map.  Every handle is the same
\* object, and get_setting(k) through any handle returns the value of the
\* most recent set_setting for k, None if k was never set, whatever
\* constructions came in between; a get_setting that has returned, returned
\* a stored value or None.
C1_SharedRegistry ==
    /\ \A h \in 1..Len(cfg_handles) :
         /\ cfg_handles[h] = cfg_instance
         /\ \A k \in Keys : DictGet(SettingsOf(h), k) = cfg_lastSet[k]
    /\ \A k \in Keys : cfg_setWhen[k] = 0 => cfg_lastSet[k] = None
    /\ cfg_got.value \in Values \cup {None}

\* a value set through the first handle is stored when a third handle, constructed
\* after the set, has read it, while the other key was never set
C1_Witness ==
    /\ Len(cfg_handles) = 3
    /\ cfg_setWhen["language"] = 1
    /\ cfg_lastSet["language"] = <<"E","N">>
    /\ cfg_got = [handle |-> 3, key |-> "language", value |-> <<"E","N">>]
    /\ DictGet(SettingsOf(2), "theme") = None

NotifiedCount(o) == Cardinality({i \in 1..Len(notified) : notified[i].obs = o})

\* none of the entries o1..on of the pass has been detached during it
\* (an entry, once detached, is never one of o1..on again)
StartEntriesKept ==
    /\ Len(orig) >= Len(startObs)
    /\ \A k \in 1..Len(startObs) : orig[k] = k

\* C2: when set_content(t) has returned and none of o1..on was detached by an
\* update of the pass, the content is t and the first n completed update
\* calls are those of o1..on in attachment order, one per attachment, each
\* having read get_content() = t; any further update call is that of an entry
\* attached during the pass.  When no update called attach either, there
\* are exactly n update calls, and the loggers among o1..on printed one line
\* each.
C2_NotifyAllInOrder ==
    (pc = "returned" /\ StartEntriesKept) =>
        /\ doc_content = arg
        /\ SubSeq(observers, 1, Len(startObs)) = startObs
        /\ Len(notified) >= Len(startObs)
        /\ \A i \in 1..Len(notified) :
             /\ notified[i].seen = arg
             /\ IF i <= Len(startObs)
                THEN notified[i].obs = startObs[i] /\ notified[i].orig = i
                ELSE notified[i].orig = 0
        /\ ~mutated =>
             /\ observers = startObs
             /\ Len(notified) = Len(startObs)
             /\ scenario = "document" =>
                  /\ Len(out) = Cardinality({i \in 1..Len(startObs) : startObs[i] \in Loggers})
                  /\ \A m \in 1..Len(out) : out[m] = LoggerPrefix \o arg

\* a logger attached twice, around another, has been notified twice
C2_Witness ==
    /\ pc = "returned" /\ ~mutated
    /\ startObs = <<"logger1", "logger2", "logger1">>
    /\ arg = <<"Y">>
    /\ NotifiedCount("logger1") = 2
    /\ Len(out) = 3

\* C3: detach(o) with o not in the observer sequence raises ValueError and
\* changes neither the sequence nor the content, and starts no notification.
C3_DetachAbsentRaises ==
    [][\A o \in ObserverIds :
          (Detach(o) /\ ~Has(observers, o)) =>
              /\ err' = "ValueError"
              /\ observers' = observers
              /\ doc_content' = doc_content
              /\ pc' = "idle"
              /\ notified' = <<>>
              /\ out' = Console]_vars

\* a client's detach of an observer that is not attached has raised, on a
\* document that has content and other observers
C3_Witness ==
    /\ err = "ValueError" /\ pc = "idle"
    /\ last.op = "detach" /\ ~last.ok /\ last.before = 0
    /\ Len(observers) = 2
    /\ doc_content = <<"X">>

\* whether update of o raises when no update before it changed the list
Fails(o) == o \in Failing \/ (o \in Detachers /\ ~Has(startObs, Target(o)))

\* C4: when the i-th observer's update raises and no update before it called
\* attach or detach, set_content raises; exactly observers 1..i-1 were
\* notified, in order; the sequence is unchanged and the content is
\* already t.  A pass over a sequence with such an observer never returns
\* normally.
C4_FailurePropagates ==
    /\ (pc = "raised" /\ ~mutated) =>
          /\ err # "none"
          /\ failedAt \in 1..Len(startObs)
          /\ Fails(startObs[failedAt])
          /\ \A j \in 1..(failedAt - 1) : ~Fails(startObs[j])
          /\ Len(notified) = failedAt - 1
          /\ \A j \in 1..Len(notified) : notified[j].obs = startObs[j] /\ notified[j].seen = arg
          /\ observers = startObs
          /\ doc_content = arg
    /\ (pc = "returned" /\ ~mutated) => \A j \in 1..Len(startObs) : ~Fails(startObs[j])

\* the second of three observers raised: the first was notified, the third not
C4_Witness ==
    /\ pc = "raised" /\ ~mutated
    /\ startObs = <<"logger1", "failing", "logger2">>
    /\ failedAt = 2
    /\ Len(notified) = 1
    /\ doc_content = <<"X">>

RECURSIVE SpellWrapped(_, _)
SpellWrapped(x, n) == IF n = 0 THEN x ELSE SpellOpen \o SpellWrapped(x, n - 1) \o SpellClose

KindCount(decos, kind, n) == Cardinality({i \in 1..n : decos[i] = kind})

\* the position in decos of the m-th LoggingDecorator, counted from the inside
NthLogging(decos, m) ==
    CHOOSE j \in 1..Len(decos) :
        decos[j] = "LoggingDecorator" /\ KindCount(decos, "LoggingDecorator", j) = m

\* C5: operation() on a chain over ConcreteComponent(s) returns s inside one
\* "SpellChecked(...)" per SpellCheckDecorator; it prints one "Logging: r"
\* per LoggingDecorator, innermost first, r being s inside one
\* "SpellChecked(...)" per SpellCheckDecorator that this LoggingDecorator wraps.
C5_DecoratorChain ==
    (scenario = "decorator" /\ op_result # None) =>
        /\ op_result = SpellWrapped(chain.payload,
                                     KindCount(chain.decos, "SpellCheckDecorator", Len(chain.decos)))
        /\ Len(out) = KindCount(chain.decos, "LoggingDecorator", Len(chain.decos))
        /\ \A m \in 1..Len(out) :
             out[m] = LoggingPrefix \o
                      SpellWrapped(chain.payload,
                                   KindCount(chain.decos, "SpellCheckDecorator",
                                             NthLogging(chain.decos, m) - 1))

\* SpellCheckDecorator(LoggingDecorator(ConcreteComponent("abc"))).operation()
C5_Witness ==
    /\ scenario = "decorator"
    /\ chain = [payload |-> <<"a","b","c">>, decos |-> <<"LoggingDecorator", "SpellCheckDecorator">>]
    /\ op_result = <<"S","p","e","l","l","C","h","e","c","k","e","d","(","a","b","c",")">>
    /\ out = << <<"L","o","g","g","i","n","g",":"," ","a","b","c">> >>

\* C6: every execute(s) that has returned, returned process(s) of the strategy
\* installed last before the call, lower-cased for LowerCaseStrategy and
\* upper-cased for UpperCaseStrategy, and later set_strategy calls leave it so.
C6_ExecuteUsesInstalled ==
    /\ strategy = installed
    /\ \A i \in 1..Len(calls) :
         /\ calls[i].active \in Strategies
         /\ Len(calls[i].result) = Len(calls[i].input)
         /\ \A j \in 1..Len(calls[i].input) :
              calls[i].result[j] = IF calls[i].active = "LowerCaseStrategy"
                                   THEN LowerChar(calls[i].input[j])
                                   ELSE UpperChar(calls[i].input[j])

\* the same input executed before and after a swap, and the strategy swapped again since
C6_Witness ==
    /\ Len(calls) = 2
    /\ calls[1] = [input |-> <<"a","B">>, result |-> <<"a","b">>, active |-> "LowerCaseStrategy"]
    /\ calls[2] = [input |-> <<"a","B">>, result |-> <<"A","B">>, active |-> "UpperCaseStrategy"]
    /\ strategy = "LowerCaseStrategy"

Line1 == <<"C","o","n","f","i","g","u","r","a","t","i","o","n"," ","L","a","n","g","u","a","g","e",":"," ","E","N">>
Line2 == <<"P","r","o","c","e","s","s","e","d"," ","C","o","n","t","e","n","t",":"," ","h","e","l","l","o"," ","w","o","r","l","d","!">>
Line3 == <<"L","o","g","g","e","r",":"," ","D","o","c","u","m","e","n","t"," ","c","o","n","t","e","n","t"," ","u","p","d","a","t","e","d"," ","t","o",":"," ","N","e","w"," ","D","o","c","u","m","e","n","t"," ","C","o","n","t","e","n","t">>
Line4 == <<"L","o","w","e","r","C","a","s","e",":"," ","h","e","l","l","o"," ","w","o","r","l","d","!">>
Line5 == <<"U","p","p","e","r","C","a","s","e",":"," ","H","E","L","L","O"," ","W","O","R","L","D","!">>
Line6 == <<"L","o","g","g","i","n","g",":"," ","T","e","x","t"," ","t","o"," ","b","e"," ","p","r","o","c","e","s","s","e","d">>
Line7 == <<"F","i","n","a","l"," ","O","u","t","p","u","t",":"," ","S","p","e","l","l","C","h","e","c","k","e","d","(","T","e","x","t"," ","t","o"," ","b","e"," ","p","r","o","c","e","s","s","e","d",")">>
DriverLines == <<Line1, Line2, Line3, Line4, Line5, Line6, Line7>>

\* how many lines the driver has printed when it is about to run `line`
PrintedBefore(line) ==
    CASE line \in {"139", "140", "141"} -> 0
      [] line \in {"144", "147"} -> 1
      [] line \in {"150", "153"} -> 2
      [] line = "153 notify" -> IF it = 0 THEN 2 ELSE 3
      [] line \in {"156", "157"} -> 3
      [] line \in {"158", "159"} -> 4
      [] line \in {"162", "163 inner", "163 outer", "164"} -> 5
      [] line = "164 print" -> 6
      [] line = "end" -> 7

\* C8: the driver prints the seven lines in this order and nothing else: at
\* every statement what is printed so far is the expected prefix of them, it
\* never ends in a traceback, and at the end all seven are out, "Logging:
\* ..." before "Final Output: ...".
C8_DriverOutput ==
    scenario = "main" =>
        /\ mpc # "traceback"
        /\ out = SubSeq(DriverLines, 1, PrintedBefore(mpc))

\* the driver has run to its end
C8_Witness == scenario = "main" /\ mpc = "end" /\ Len(out) = 7 /\ out[6] = Line6 /\ out[7] = Line7

\* C9 (the call): detach(o) with o in the sequence raises nothing, drops the
\* first occurrence of o and nothing else, keeps the order of every other
\* entry, leaves the content alone and starts no notification.
C9_DetachStep ==
    \A o \in ObserverIds :
        (Detach(o) /\ Has(observers, o)) =>
            /\ err' = "none"
            /\ \E i \in 1..Len(observers) :
                 /\ observers[i] = o
                 /\ \A j \in 1..(i - 1) : observers[j] # o
                 /\ Len(observers') = Len(observers) - 1
                 /\ \A j \in 1..Len(observers') :
                      observers'[j] = IF j < i THEN observers[j] ELSE observers[j + 1]
            /\ Count(observers', o) = Count(observers, o) - 1
            /\ doc_content' = doc_content
            /\ pc' = "idle"
            /\ notified' = <<>>
            /\ out' = Console

\* C9: detach(o) of an attached o removes exactly its first occurrence, and a
\* set_content that follows (whose updates call neither attach nor detach)
\* notifies o one time fewer than o was attached before the detach.
C9_DetachFirstOccurrence ==
    /\ [][C9_DetachStep]_vars
    /\ [](  (pc = "returned" /\ ~mutated /\ last.op = "detach" /\ last.ok)
            => NotifiedCount(last.obs) = last.before - 1)

\* logger1 was attached twice around logger2; after detach(logger1) the later
\* duplicate is still there, behind logger2, and was notified once
C9_Witness ==
    /\ last = [op |-> "detach", obs |-> "logger1", ok |-> TRUE, before |-> 2]
    /\ pc = "returned" /\ ~mutated
    /\ observers = <<"logger2", "logger1">>
    /\ NotifiedCount("logger1") = 1

\* C10: when set_content has returned, every entry that was in the sequence
\* when it was called and was not detached before its turn has been notified
\* exactly once, and these notifications came in attachment order.
C10_NoneSkipped ==
    pc = "returned" =>
        /\ \A k \in 1..Len(startObs) :
             k \notin removed => Cardinality({i \in 1..Len(notified) : notified[i].orig = k}) = 1
        /\ \A i, j \in 1..Len(notified) :
             (i < j /\ notified[i].orig # 0 /\ notified[j].orig # 0)
                 => notified[i].orig < notified[j].orig

\* A pass in which every entry still ahead of the iterator is a Logger or the
\* observer that attaches itself, and at least one is the latter: a Logger's
\* update changes nothing, and each update of selfAttach appends selfAttach,
\* so an entry that attaches itself is always still ahead and the iterator
\* never reaches the end of the list.
Diverging ==
    /\ pc = "notifying"
    /\ \E j \in (it + 1)..Len(observers) : observers[j] = "selfAttach"
    /\ \A j \in (it + 1)..Len(observers) : observers[j] \in Loggers \cup {"selfAttach"}

\* One turn of the loop leads from such a pass to such a pass.
DivergingIsClosed == [][Diverging => Diverging']_vars

\* C7: every set_content call completes: no notification pass that has
\* already made more update calls than there were observers when it began
\* is in a state from which it can only go on notifying.
C7_PassCompletes == ~(Diverging /\ Len(notified) > Len(startObs))

====
